---- MODULE Spec2Model ----
(***************************************************************************)
(* A model of the todo backend's authentication and authorization core:    *)
(* the in-memory credential store and the signup / signin handlers         *)
(* (src/api/auth.py), JWT verification (src/core/security.py), the bearer  *)
(* dependency (src/core/middleware.py), the ownership guard                *)
(* (src/api/deps.py) and the task endpoints with their service calls       *)
(* (src/api/tasks.py, src/services/task_service.py).                       *)
(*                                                                         *)
(* Handlers are coroutines on one asyncio event loop: a handler runs from  *)
(* its start, or from the await it was suspended at, up to its next await  *)
(* or its return, and nothing else runs on the loop meanwhile.  The        *)
(* variable loop names the coroutine that holds the event loop.            *)
(*                                                                         *)
(* Abstractions: created_at / updated_at / description are left out of     *)
(* the stored records; uuid4() is a generator of fresh identifiers; HMAC   *)
(* and bcrypt are ideal (a signature or digest matches exactly the key /   *)
(* salt and the input it was made from).                                   *)
(***************************************************************************)
EXTENDS Integers, Sequences, FiniteSets, TLC

\* ------------------------------------------------------------- bounds
MaxAdvance == 2        \* clock advances explored
MaxUsers == 2          \* identifiers the signup handler may draw
MaxTokens == 1         \* tokens the clients keep
MaxTasks == 1          \* task rows ever created
TicksPerSecond == 2    \* clock resolution: ticks in one second
MaxToggles == 2        \* toggle requests received

Clients == {"c1", "c2"}
Passwords == {"pw1", "pw2"}
RawEmails == {<<"A", "@", "x">>, <<"a", "@", "x">>, <<"b", "@", "x">>}
\* the signup bodies the clients send
SignupBodies ==
    { [email |-> <<"A", "@", "x">>, password |-> "pw1", name |-> "Ann"],
      [email |-> <<"a", "@", "x">>, password |-> "pw2", name |-> "Bob"],
      [email |-> <<"b", "@", "x">>, password |-> "pw2", name |-> "Ann"] }

\* ---------------------------------------------------- program constants
TOKEN_EXPIRE_DAYS == 7
HTTP_200_OK == 200
HTTP_201_CREATED == 201
HTTP_204_NO_CONTENT == 204
HTTP_400_BAD_REQUEST == 400
HTTP_401_UNAUTHORIZED == 401
HTTP_404_NOT_FOUND == 404
HTTP_500_INTERNAL_SERVER_ERROR == 500
ALGORITHM == "HS256"
BETTER_AUTH_SECRET == "server-secret"
OtherSecret == "other-secret"

SecondsPerDay == 24 * 60 * 60
\* timedelta(days=7), in clock ticks and in seconds
LifetimeSeconds == TOKEN_EXPIRE_DAYS * SecondsPerDay
LifetimeTicks == LifetimeSeconds * TicksPerSecond
ClockSteps == {1, LifetimeTicks - 1}

VARIABLES
    users_db,    \* auth.users_db: normalized email -> credential record
    tasks,       \* the tasks table: task id -> row
    now,         \* the wall clock, in ticks
    advances,    \* clock advances so far
    uuid_seq,    \* identifiers uuid4() has handed to signup
    task_seq,    \* identifiers uuid4() has handed to Task rows
    req,         \* per client connection: the request in progress or finished
    loop,        \* the coroutine that holds the event loop, or "none"
    tokens,      \* what the clients hold: each token signin returned, when, for whom
    inp,         \* inputs of the stand-alone verification pipeline
    toggles      \* per watched task: its first is_completed, toggle requests answered

vars == <<users_db, tasks, now, advances, uuid_seq, task_seq, req, loop, tokens, inp,
         toggles>>

\* ------------------------------------------------------------- strings
\* str.lower() on one character of the alphabet in use
LowerChar(ch) ==
    CASE ch = "A" -> "a"
      [] ch = "B" -> "b"
      [] ch = "X" -> "x"
      [] OTHER -> ch

\* a mutation of lower: the email is used as typed
lower_as_typed(s) == s

\* str.lower(): every character lowercased
lower(s) == [i \in 1..Len(s) |-> LowerChar(s[i])]

\* str(uuid): the text of identifier u.  Texts are sequences; a JSON number
\* is the pair <<"int", n>>.
UuidText(u) == <<"uuid-text", u>>
PlainText(n) == <<"text", n>>
JsonInt(n) == <<"int", n>>
IsStr(v) == v[1] # "int"

\* UUID(text): the identifier, or ValueError
UUID(text) ==
    IF text[1] = "uuid-text" THEN [ok |-> TRUE, id |-> text[2]]
    ELSE [ok |-> FALSE, id |-> 0]

\* ------------------------------------------------------------ passwords
\* a mutation of hash_password: the digest is computed under a fixed salt
hash_password_unsalted(password, salt) == [salt |-> salt, digest |-> <<0, password>>]

\* pwd_context.hash with the fresh salt bcrypt drew
hash_password(password, salt) == [salt |-> salt, digest |-> <<salt, password>>]

\* pwd_context.verify: recompute under the digest's own salt and compare
verify_password(plain_password, hashed_password) ==
    hashed_password.digest = <<hashed_password.salt, plain_password>>

\* --------------------------------------------------------------- tokens
\* datetime -> NumericDate as jwt.encode does it: whole seconds, truncated
NumericDate(t) == t \div TicksPerSecond

Hmac(key, header, payload) == [key |-> key, header |-> header, payload |-> payload]

\* jwt.encode(payload, key, algorithm)
jwt_encode(payload, key, alg) ==
    LET header == [alg |-> alg, typ |-> "JWT"]
    IN  [header |-> header, payload |-> payload, sig |-> Hmac(key, header, payload)]

\* a mutation of create_access_token: timedelta(hours=7)
create_access_token_hours(user_id, email, name, t) ==
    jwt_encode([sub |-> user_id, email |-> email, name |-> name,
                exp |-> NumericDate(t + TOKEN_EXPIRE_DAYS * 60 * 60 * TicksPerSecond),
                iat |-> NumericDate(t)],
               BETTER_AUTH_SECRET, "HS256")

\* create_access_token at clock t
create_access_token(user_id, email, name, t) ==
    jwt_encode([sub |-> user_id, email |-> email, name |-> name,
                exp |-> NumericDate(t + LifetimeTicks), iat |-> NumericDate(t)],
               BETTER_AUTH_SECRET, "HS256")

\* a string that is not three base64url segments
NotAToken == [garbage |-> TRUE]

\* jwt.decode(token, key, algorithms) at clock t: the payload or the error raised
jwt_decode(token, key, algorithms, t) ==
    IF "payload" \notin DOMAIN token
    THEN [ok |-> FALSE, err |-> "DecodeError"]
    ELSE IF token.header.alg \notin algorithms
    THEN [ok |-> FALSE, err |-> "InvalidAlgorithmError"]
    ELSE IF token.sig # Hmac(key, token.header, token.payload)
    THEN [ok |-> FALSE, err |-> "InvalidSignatureError"]
    ELSE IF "exp" \in DOMAIN token.payload
            /\ token.payload.exp * TicksPerSecond <= t
    THEN [ok |-> FALSE, err |-> "ExpiredSignatureError"]
    ELSE [ok |-> TRUE, payload |-> token.payload]

\* TokenPayload(**payload): sub is a required str, email an optional str
TokenPayloadValid(payload) ==
    /\ "sub" \in DOMAIN payload
    /\ IsStr(payload.sub)
    /\ ("email" \in DOMAIN payload => IsStr(payload.email))

NoEmail == <<"none", 0>>

\* decode_token: only jwt's errors are caught
decode_token(token, t) ==
    LET d == jwt_decode(token, BETTER_AUTH_SECRET, {ALGORITHM}, t)
    IN  IF ~d.ok THEN [kind |-> "none"]
        ELSE IF ~TokenPayloadValid(d.payload)
        THEN [kind |-> "raise", exc |-> "ValidationError"]
        ELSE [kind |-> "payload", sub |-> d.payload.sub,
              email |-> IF "email" \in DOMAIN d.payload THEN d.payload.email ELSE NoEmail]

\* a mutation of get_user_from_token: the user must still be in users_db
get_user_from_token_stored(token, t) ==
    LET p == decode_token(token, t)
    IN  IF p.kind = "none" THEN [kind |-> "none"]
        ELSE IF p.kind = "raise" THEN p
        ELSE IF UUID(p.sub).ok /\ \E k \in DOMAIN users_db : users_db[k].id = p.sub
        THEN [kind |-> "user", id |-> UUID(p.sub).id, email |-> p.email]
        ELSE [kind |-> "none"]

\* get_user_from_token: the identity, None, or the exception that escapes
get_user_from_token(token, t) ==
    LET p == decode_token(token, t)
    IN  IF p.kind = "none" THEN [kind |-> "none"]
        ELSE IF p.kind = "raise" THEN p
        ELSE IF UUID(p.sub).ok
        THEN [kind |-> "user", id |-> UUID(p.sub).id, email |-> p.email]
        ELSE [kind |-> "none"]

\* ------------------------------------------------------------ responses
Error(status, code, message) ==
    [status |-> status, detail |-> [code |-> code, message |-> message]]

\* an exception no handler catches: the server's 500
Unhandled(exc) == Error(HTTP_500_INTERNAL_SERVER_ERROR, exc, "Internal Server Error")

DuplicateEmail == Error(HTTP_400_BAD_REQUEST, "DUPLICATE_EMAIL", "Email already registered")
\* a mutation of the wrong-password failure: it names the cause
WrongPasswordTold ==
    Error(HTTP_401_UNAUTHORIZED, "INVALID_CREDENTIALS", "Wrong password")

\* signin's failure when the email is not in users_db
UnknownEmail ==
    Error(HTTP_401_UNAUTHORIZED, "INVALID_CREDENTIALS", "Invalid email or password")

\* signin's failure when verify_password is false
WrongPassword ==
    Error(HTTP_401_UNAUTHORIZED, "INVALID_CREDENTIALS", "Invalid email or password")
AuthenticationRequired ==
    Error(HTTP_401_UNAUTHORIZED, "AUTHENTICATION_REQUIRED", "Authentication required")
InvalidToken == Error(HTTP_401_UNAUTHORIZED, "INVALID_TOKEN", "Invalid or expired token")
\* a mutation of the guard's denial: a 403
ResourceForbidden == Error(403, "FORBIDDEN", "Forbidden")

\* verify_user_access's denial
ResourceNotFound == Error(HTTP_404_NOT_FOUND, "NOT_FOUND", "Resource not found")
TaskNotFound == Error(HTTP_404_NOT_FOUND, "NOT_FOUND", "Task not found")

\* no Authorization header
NoCredentials == [absent |-> TRUE]

\* get_current_user: the identity, or the response that ends the request
get_current_user(credentials, t) ==
    IF "absent" \in DOMAIN credentials
    THEN [kind |-> "response", resp |-> AuthenticationRequired]
    ELSE LET user == get_user_from_token(credentials, t)
         IN  IF user.kind = "raise"
             THEN [kind |-> "response", resp |-> Unhandled(user.exc)]
             ELSE IF user.kind = "none"
             THEN [kind |-> "response", resp |-> InvalidToken]
             ELSE user

\* a mutation of the guard: the comparison is inverted
verify_user_access_inverted(url_user_id, current_user) ==
    IF url_user_id = current_user.id
    THEN [allowed |-> FALSE, resp |-> ResourceNotFound]
    ELSE [allowed |-> TRUE]

\* a mutation of the guard: every authenticated caller passes
verify_user_access_open(url_user_id, current_user) == [allowed |-> TRUE]

\* verify_user_access: allowed, or the 404 raised
verify_user_access(url_user_id, current_user) ==
    IF url_user_id # current_user.id
    THEN [allowed |-> FALSE, resp |-> ResourceNotFound]
    ELSE [allowed |-> TRUE]

\* ----------------------------------------------------------- event loop
\* a mutation of the await points: signup awaits between its check and its insert
IsAwaitPointHashAwaited(pc) ==
    pc \in {"signup_store", "query", "commit", "refresh"}

\* the program points at which a handler is suspended in an await
IsAwaitPoint(pc) == pc \in {"query", "commit", "refresh"}

\* client c's connection carries no unfinished request
Free(c) == req[c].pc = "done"

\* a new request's handler starts when nothing holds the loop
CanStart(c) == Free(c) /\ loop = "none"

\* the handler of c continues from pc
CanRun(c, pc) ==
    /\ req[c].pc = pc
    /\ IF IsAwaitPoint(pc) THEN loop = "none" ELSE loop = c

\* who holds the loop once c has moved to pc
Holder(c, pc) == IF pc = "done" \/ IsAwaitPoint(pc) THEN "none" ELSE c

NoResp == [status |-> 0]
Idle == [kind |-> "idle", pc |-> "done", resp |-> NoResp]

\* dict assignment d[k] = v
Assign(d, k, v) == [x \in DOMAIN d \cup {k} |-> IF x = k THEN v ELSE d[x]]

\* -------------------------------------------------------------- signup
\* signup, lines 56-65: normalize, look the email up, reject a duplicate
SignupCheck(c, email, password, name) ==
    /\ CanStart(c)
    /\ uuid_seq < MaxUsers
    /\ LET email_lower == lower(email)
           r == [kind |-> "signup", email |-> email, password |-> password,
                 name |-> name, email_lower |-> email_lower]
       IN  IF email_lower \in DOMAIN users_db
           THEN /\ req' = [req EXCEPT ![c] = r @@ [pc |-> "done", resp |-> DuplicateEmail]]
                /\ loop' = Holder(c, "done")
           ELSE /\ req' = [req EXCEPT ![c] = r @@ [pc |-> "signup_store", resp |-> NoResp]]
                /\ loop' = Holder(c, "signup_store")
    /\ UNCHANGED <<users_db, tasks, now, advances, uuid_seq, task_seq, tokens, inp, toggles>>

\* signup, lines 67-77: draw the id, hash the password, store, answer
SignupStore(c) ==
    /\ CanRun(c, "signup_store")
    /\ LET user_id == UuidText(uuid_seq + 1)
           salt == uuid_seq + 1
           r == req[c]
       IN    /\ uuid_seq' = uuid_seq + 1
             /\ users_db' = Assign(users_db, r.email_lower,
                                   [id |-> user_id, email |-> r.email_lower, name |-> r.name,
                                    hashed_password |-> hash_password(r.password, salt)])
             /\ req' = [req EXCEPT ![c] = [r EXCEPT !.pc = "done",
                            !.resp = [status |-> HTTP_200_OK,
                                      body |-> [message |-> "User created successfully",
                                                user_id |-> user_id]]]]
    /\ loop' = Holder(c, "done")
    /\ UNCHANGED <<tasks, now, advances, task_seq, tokens, inp, toggles>>

\* -------------------------------------------------------------- signin
\* signin, lines 85-96: normalize, look the user up
SigninLookup(c, email, password) ==
    /\ CanStart(c)
    /\ Cardinality(tokens) < MaxTokens
    /\ LET email_lower == lower(email)
           r == [kind |-> "signin", email |-> email, password |-> password,
                 email_lower |-> email_lower]
       IN  IF email_lower \notin DOMAIN users_db
           THEN /\ req' = [req EXCEPT ![c] =
                      r @@ [pc |-> "done", why |-> "unknown_email", resp |-> UnknownEmail]]
                /\ loop' = Holder(c, "done")
           ELSE /\ req' = [req EXCEPT ![c] =
                      r @@ [pc |-> "signin_verify", why |-> "", resp |-> NoResp]]
                /\ loop' = Holder(c, "signin_verify")
    /\ UNCHANGED <<users_db, tasks, now, advances, uuid_seq, task_seq, tokens, inp, toggles>>

\* UserResponse(id=..., email=..., name=...): id is parsed as a UUID
UserResponse(user) == [id |-> UUID(user.id).id, email |-> user.email, name |-> user.name]

\* signin, lines 98-118: verify the password, mint the token, answer
SigninVerify(c) ==
    /\ CanRun(c, "signin_verify")
    /\ LET r == req[c]
           user == users_db[r.email_lower]
       IN  IF ~verify_password(r.password, user.hashed_password)
           THEN /\ req' = [req EXCEPT ![c] =
                      [r EXCEPT !.pc = "done", !.why = "wrong_password", !.resp = WrongPassword]]
                /\ UNCHANGED tokens
           ELSE LET access_token == create_access_token(user.id, user.email, user.name, now)
                IN  /\ req' = [req EXCEPT ![c] = [r EXCEPT !.pc = "done", !.why = "ok",
                                 !.resp = [status |-> HTTP_200_OK,
                                           body |-> [access_token |-> access_token,
                                                     token_type |-> "bearer",
                                                     user |-> UserResponse(user)]]]]
                    /\ tokens' = tokens \cup {[token |-> access_token, at |-> now, holder |-> c,
                                               user_id |-> user.id, email |-> user.email]}
    /\ loop' = Holder(c, "done")
    /\ UNCHANGED <<users_db, tasks, now, advances, uuid_seq, task_seq, inp, toggles>>

\* --------------------------------------------------------------- clock
\* time passes
Advance(d) ==
    /\ advances < MaxAdvance
    /\ now' = now + d
    /\ advances' = advances + 1
    /\ UNCHANGED <<users_db, tasks, uuid_seq, task_seq, req, loop, tokens, inp, toggles>>

\* --------------------------------------------------------------- tasks
TaskKinds == {"list", "create", "get", "update", "delete", "toggle"}
UserIds == 1..MaxUsers
TaskIds == 1..MaxTasks
NoTask == [id |-> 0]
NoTitle == <<>>
CreateTitles == {<<" ", "a">>}
UpdateTitles == {NoTitle, <<"b", " ">>}
StatusFilters == {"none", "pending", "completed"}

\* str.strip(): leading and trailing blanks removed
RECURSIVE lstrip(_)
lstrip(s) == IF s # <<>> /\ Head(s) = " " THEN lstrip(Tail(s)) ELSE s
RECURSIVE rstrip(_)
rstrip(s) == IF s # <<>> /\ s[Len(s)] = " " THEN rstrip(SubSeq(s, 1, Len(s) - 1)) ELSE s
strip(s) == rstrip(lstrip(s))

\* task_service.get_tasks: the rows of user_id, filtered by status
get_tasks(user_id, status_filter) ==
    { tasks[i] : i \in { j \in DOMAIN tasks :
        /\ tasks[j].user_id = user_id
        /\ (status_filter = "pending" => ~tasks[j].is_completed)
        /\ (status_filter = "completed" => tasks[j].is_completed) } }

\* task_service.get_task: the row with this id and this owner, or None
get_task(task_id, user_id) ==
    IF task_id \in DOMAIN tasks /\ tasks[task_id].user_id = user_id
    THEN tasks[task_id] ELSE NoTask

\* a held token with its payload rewritten to name user u, the signature kept
Rewritten(token, u) == [token EXCEPT !.payload.sub = UuidText(u)]
\* the task requests a client sends: each kind with the parameters it takes, and
\* as credentials nothing (bare), a token it holds, or one it rewrote (forged)
TaskRequests ==
    { q \in [kind : TaskKinds, user_id : UserIds, task_id : TaskIds,
             title : CreateTitles \cup UpdateTitles, status : StatusFilters,
             forged : BOOLEAN, bare : BOOLEAN] :
        /\ q.kind \in {"list", "create"} => q.task_id = 1
        /\ q.title \in (IF q.kind = "create" THEN CreateTitles
                        ELSE IF q.kind = "update" THEN UpdateTitles ELSE {NoTitle})
        /\ q.kind # "list" => q.status = "none"
        /\ ~(q.forged /\ q.bare)
        \* without a held token only the path's user matters: one request each
        /\ (q.forged \/ q.bare) =>
              q.task_id = 1 /\ q.status = "none" /\ (q.kind = "update" => q.title = NoTitle) }

\* a request that ended before any service call
Rejected(kind, why, resp) ==
    [kind |-> "task", pc |-> "done", why |-> why, svc |-> {}, resp |-> resp,
     current_user |-> 0]

\* Every task endpoint up to its first await: the get_current_user
\* dependency, verify_user_access, then the first service call is awaited.
TaskRequest(c, kind, credentials, user_id, task_id, title, status) ==
    /\ CanStart(c)
    /\ kind = "create" => task_seq < MaxTasks
    /\ LET current_user == get_current_user(credentials, now)
       IN  IF current_user.kind = "response"
           THEN /\ req' = [req EXCEPT ![c] =
                      Rejected(kind, IF "absent" \in DOMAIN credentials THEN "no_token"
                                     ELSE "bad_token", current_user.resp)]
                /\ loop' = Holder(c, "done")
           ELSE LET access == verify_user_access(user_id, current_user)
                IN  IF ~access.allowed
                    THEN /\ req' = [req EXCEPT ![c] = Rejected(kind, "denied", access.resp)]
                         /\ loop' = Holder(c, "done")
                    ELSE /\ req' = [req EXCEPT ![c] =
                               [kind |-> kind, pc |-> "query", why |-> "", svc |-> {},
                                resp |-> NoResp, credentials |-> credentials,
                                current_user |-> current_user.id, user_id |-> user_id,
                                task_id |-> task_id, title |-> title, status |-> status,
                                task |-> NoTask]]
                         /\ loop' = Holder(c, "query")
    /\ UNCHANGED <<users_db, tasks, now, advances, uuid_seq, task_seq, tokens, inp, toggles>>

\* a request that passed both checks has returned: what is kept of it
Finish(r, why, resp) ==
    [kind |-> "task", pc |-> "done", why |-> why, svc |-> r.svc, resp |-> resp,
     current_user |-> r.current_user]

\* task_service.update_task's changes to the loaded object
Updated(task, title) ==
    IF title # NoTitle THEN [task EXCEPT !.title = strip(title)] ELSE task

\* task_service.toggle_task_completion's change to the loaded object
Toggled(task) == [task EXCEPT !.is_completed = ~task.is_completed]

\* The first awaited database call returns and the handler runs on to its
\* next await or its return.
DbQuery(c) ==
    /\ CanRun(c, "query")
    /\ LET r == req[c]
           found == get_task(r.task_id, r.user_id)
       IN  CASE r.kind = "list" ->
                  /\ req' = [req EXCEPT ![c] =
                        Finish([r EXCEPT !.svc = {r.user_id} \cup
                                   {t.user_id : t \in get_tasks(r.user_id, r.status)}],
                               "ok", [status |-> HTTP_200_OK])]
                  /\ UNCHANGED <<tasks, task_seq>>
                  /\ loop' = Holder(c, "done")
             [] r.kind = "create" ->
                  LET task == [id |-> task_seq + 1, user_id |-> r.user_id,
                               title |-> strip(r.title), is_completed |-> FALSE]
                  IN  /\ tasks' = Assign(tasks, task.id, task)
                      /\ task_seq' = task_seq + 1
                      /\ req' = [req EXCEPT ![c] =
                            [r EXCEPT !.pc = "refresh", !.task = task, !.svc = {task.user_id}]]
                      /\ loop' = Holder(c, "refresh")
             [] r.kind = "get" ->
                  /\ req' = [req EXCEPT ![c] =
                        IF found = NoTask
                        THEN Finish([r EXCEPT !.svc = {r.user_id}], "missing", TaskNotFound)
                        ELSE Finish([r EXCEPT !.svc = {found.user_id}, !.task = found],
                                    "ok", [status |-> HTTP_200_OK])]
                  /\ UNCHANGED <<tasks, task_seq>>
                  /\ loop' = Holder(c, "done")
             [] OTHER ->
                  /\ req' = [req EXCEPT ![c] =
                        IF found = NoTask
                        THEN Finish([r EXCEPT !.svc = {r.user_id}], "missing", TaskNotFound)
                        ELSE [r EXCEPT !.pc = "commit", !.svc = {found.user_id},
                                 !.task = CASE r.kind = "update" -> Updated(found, r.title)
                                            [] r.kind = "toggle" -> Toggled(found)
                                            [] OTHER -> found]]
                  /\ UNCHANGED <<tasks, task_seq>>
                  /\ loop' = IF found = NoTask THEN Holder(c, "done") ELSE Holder(c, "commit")
    /\ UNCHANGED <<users_db, now, advances, uuid_seq, tokens, inp, toggles>>

\* session.commit() returns: the loaded object's changes are flushed to its row
DbCommit(c) ==
    /\ CanRun(c, "commit")
    /\ LET r == req[c]
           id == r.task.id
       IN  IF r.kind = "delete"
           THEN /\ tasks' = [i \in DOMAIN tasks \ {id} |-> tasks[i]]
                /\ req' = [req EXCEPT ![c] =
                      Finish(r, "ok", [status |-> HTTP_204_NO_CONTENT])]
                /\ loop' = Holder(c, "done")
           ELSE IF id \notin DOMAIN tasks
           THEN /\ req' = [req EXCEPT ![c] =
                      Finish(r, "error", Unhandled("StaleDataError"))]
                /\ UNCHANGED tasks
                /\ loop' = Holder(c, "done")
           ELSE /\ tasks' = [tasks EXCEPT ![id] =
                      IF r.kind = "toggle" THEN [@ EXCEPT !.is_completed = r.task.is_completed]
                      ELSE [@ EXCEPT !.title = r.task.title]]
                /\ req' = [req EXCEPT ![c] =
                      [r EXCEPT !.pc = "refresh", !.svc = @ \cup {tasks[id].user_id}]]
                /\ loop' = Holder(c, "refresh")
    /\ UNCHANGED <<users_db, now, advances, uuid_seq, task_seq, tokens, inp, toggles>>

\* session.refresh(task) returns: the object is reloaded from its row and returned
DbRefresh(c) ==
    /\ CanRun(c, "refresh")
    /\ LET r == req[c]
           id == r.task.id
       IN  req' = [req EXCEPT ![c] =
              IF id \notin DOMAIN tasks
              THEN Finish(r, "error", Unhandled("InvalidRequestError"))
              ELSE Finish([r EXCEPT !.task = tasks[id], !.svc = @ \cup {tasks[id].user_id}],
                          "ok", [status |-> IF r.kind = "create" THEN HTTP_201_CREATED
                                            ELSE HTTP_200_OK])]
    /\ toggles' = LET id == req[c].task.id
                  IN  IF req[c].kind = "toggle" /\ id \in DOMAIN tasks /\ id \in DOMAIN toggles
                      THEN [toggles EXCEPT ![id].n = @ + 1]
                      ELSE toggles
    /\ loop' = Holder(c, "done")
    /\ UNCHANGED <<users_db, tasks, now, advances, uuid_seq, task_seq, tokens, inp>>

NoInput == [stage |-> "off"]

Init ==
    /\ users_db = <<>>
    /\ tasks = <<>>
    /\ now = 0
    /\ advances = 0
    /\ uuid_seq = 0
    /\ task_seq = 0
    /\ req = [c \in Clients |-> Idle]
    /\ loop = "none"
    /\ tokens = {}
    /\ inp = NoInput
    /\ toggles = <<>>

\* the auth endpoints serving requests with these bodies
Serve(bodies, emails) ==
    \/ \E c \in Clients, b \in bodies :
         SignupCheck(c, b.email, b.password, b.name)
    \/ \E c \in Clients : SignupStore(c)
    \/ \E c \in Clients, email \in emails, password \in Passwords :
         SigninLookup(c, email, password)
    \/ \E c \in Clients : SigninVerify(c)
    \/ \E d \in ClockSteps : Advance(d)

Next == Serve(SignupBodies, RawEmails)

Spec == Init /\ [][Next]_vars

\* ------------------------------------------------- the task endpoints
\* Two users have signed up and signed in at clock 0 (the state signup and
\* signin leave); the clients then use the task
\* endpoints.
StoredUser(b, n) ==
    [id |-> UuidText(n), email |-> lower(b.email), name |-> b.name,
     hashed_password |-> hash_password(b.password, n)]
Ann == [email |-> <<"A", "@", "x">>, password |-> "pw1", name |-> "Ann"]
Bea == [email |-> <<"b", "@", "x">>, password |-> "pw2", name |-> "Ann"]
SignedInStore == Assign(Assign(<<>>, lower(Ann.email), StoredUser(Ann, 1)),
                        lower(Bea.email), StoredUser(Bea, 2))
Minted(u, c) == [token |-> create_access_token(u.id, u.email, u.name, 0), at |-> 0,
                 holder |-> c, user_id |-> u.id, email |-> u.email]
SignedInTokens(ca, cb) == {Minted(StoredUser(Ann, 1), ca), Minted(StoredUser(Bea, 2), cb)}

InitTasks ==
    /\ users_db = SignedInStore
    /\ tasks = <<>>
    /\ now = 0
    /\ advances = 0
    /\ uuid_seq = 2
    /\ task_seq = 0
    /\ req = [c \in Clients |-> Idle]
    /\ loop = "none"
    /\ tokens = SignedInTokens("c1", "c2")
    /\ inp = NoInput
    /\ toggles = <<>>

NextTasks ==
    \/ \E c \in Clients, q \in TaskRequests :
         \E credentials \in (IF q.bare THEN {NoCredentials}
                             ELSE {IF q.forged THEN Rewritten(x.token, q.user_id) ELSE x.token :
                                     x \in {y \in tokens : y.holder = c}}) :
           TaskRequest(c, q.kind, credentials, q.user_id, q.task_id, q.title, q.status)
    \/ \E c \in Clients : DbQuery(c)
    \/ \E c \in Clients : DbCommit(c)
    \/ \E c \in Clients : DbRefresh(c)

SpecTasks == InitTasks /\ [][NextTasks]_vars

\* ------------------------------------------------ toggles on one task
\* One user holds two tasks and is signed in on both connections; the clients
\* send PATCH .../complete for these tasks, and toggles counts the requests
\* answered 200 per task.
Watched == {1, 2}
OwnedTask(i, done) ==
    [id |-> i, user_id |-> 1, title |-> strip(<<" ", "a">>), is_completed |-> done]

InitToggle ==
    /\ users_db = SignedInStore
    /\ tasks \in {[i \in Watched |-> OwnedTask(i, f[i])] : f \in [Watched -> BOOLEAN]}
    /\ now = 0
    /\ advances = 0
    /\ uuid_seq = 2
    /\ task_seq = Cardinality(Watched)
    /\ req = [c \in Clients |-> Idle]
    /\ loop = "none"
    /\ tokens = {Minted(StoredUser(Ann, 1), c) : c \in Clients}
    /\ inp = NoInput
    /\ toggles = [i \in Watched |-> [was |-> tasks[i].is_completed, n |-> 0]]

RECURSIVE Answered(_)
\* toggle requests answered 200 on the tasks of S
Answered(S) ==
    IF S = {} THEN 0
    ELSE LET i == CHOOSE x \in S : TRUE IN toggles[i].n + Answered(S \ {i})

\* toggle requests received so far: answered or in progress
Started == Answered(DOMAIN toggles) + Cardinality({c \in Clients : req[c].kind = "toggle"})

NextToggle ==
    \/ \E c \in Clients, i \in Watched :
         /\ Started < MaxToggles
         /\ \E x \in {y \in tokens : y.holder = c} :
              TaskRequest(c, "toggle", x.token, UUID(x.user_id).id, i, NoTitle, "none")
    \/ \E c \in Clients : DbQuery(c)
    \/ \E c \in Clients : DbCommit(c)
    \/ \E c \in Clients : DbRefresh(c)

SpecToggle == InitToggle /\ [][NextToggle]_vars

\* ------------------------------------------------------ process restart
\* The process is restarted: users_db is the module-level dict, empty again;
\* open connections are gone.  The clients keep their tokens, and uuid4()
\* never repeats an identifier.
Restart ==
    /\ users_db # <<>>
    /\ users_db' = <<>>
    /\ req' = [c \in Clients |-> Idle]
    /\ loop' = "none"
    /\ UNCHANGED <<tasks, now, advances, uuid_seq, task_seq, tokens, inp, toggles>>

\* one spelling of each email is enough here: the case of an email plays no
\* part in what a restart does
RestartBodies == {b \in SignupBodies : b.email = lower(b.email)}
RestartEmails == {b.email : b \in RestartBodies}

NextRestart == Serve(RestartBodies, RestartEmails) \/ Restart

SpecRestart == Init /\ [][NextRestart]_vars

\* ------------------------------------- the verification pipeline alone
\* get_current_user and then verify_user_access, applied to one bearer
\* credential and one path user id drawn from the inputs below.
Issued == { create_access_token(UuidText(u), <<"a", "@", "x">>, "Ann", 0) : u \in UserIds }
\* signed with another secret
Resigned(token) == jwt_encode(token.payload, OtherSecret, token.header.alg)
\* another algorithm tag, signed for that algorithm with the server's secret
Retagged(token) == jwt_encode(token.payload, BETTER_AUTH_SECRET, "HS512")
\* the unsecured form: alg none, no signature
Unsigned(token) ==
    [header |-> [alg |-> "none", typ |-> "JWT"], payload |-> token.payload,
     sig |-> [key |-> "", header |-> [alg |-> "none", typ |-> "JWT"],
              payload |-> token.payload]]
\* correctly signed, without a sub claim
WithoutSub(token) ==
    jwt_encode([email |-> token.payload.email, name |-> token.payload.name,
                exp |-> token.payload.exp, iat |-> token.payload.iat],
               BETTER_AUTH_SECRET, "HS256")
\* correctly signed, sub is not the text of a UUID
WithTextSub(token) ==
    jwt_encode([token.payload EXCEPT !.sub = PlainText(0)], BETTER_AUTH_SECRET, "HS256")

CredentialInputs ==
    {NoCredentials, NotAToken} \cup Issued
    \cup {Resigned(k) : k \in Issued} \cup {Retagged(k) : k \in Issued}
    \cup {Unsigned(k) : k \in Issued} \cup {WithoutSub(k) : k \in Issued}
    \cup {WithTextSub(k) : k \in Issued}
    \cup {Rewritten(k, u) : k \in Issued, u \in UserIds}

Pending == [kind |-> "pending"]

InitVerify ==
    /\ users_db = <<>>
    /\ tasks = <<>>
    /\ now = 0
    /\ advances = 0
    /\ uuid_seq = 0
    /\ task_seq = 0
    /\ req = [c \in Clients |-> Idle]
    /\ loop = "none"
    /\ tokens = {}
    /\ inp \in [stage : {"input"}, credentials : CredentialInputs, url_user_id : UserIds,
                at : {0}, user : {Pending}, dep : {Pending}, access : {Pending}]
    /\ toggles = <<>>

\* the dependency runs: get_current_user, and inside it get_user_from_token
Authenticate ==
    /\ inp.stage = "input"
    /\ inp' = [inp EXCEPT !.stage = "authenticated", !.at = now,
                 !.user = IF "absent" \in DOMAIN inp.credentials THEN Pending
                          ELSE get_user_from_token(inp.credentials, now),
                 !.dep = get_current_user(inp.credentials, now)]
    /\ UNCHANGED <<users_db, tasks, now, advances, uuid_seq, task_seq, req, loop, tokens, toggles>>

\* the handler's first line: verify_user_access on the identity the dependency gave
CheckAccess ==
    /\ inp.stage = "authenticated"
    /\ inp.dep.kind = "user"
    /\ inp' = [inp EXCEPT !.stage = "checked",
                 !.access = verify_user_access(inp.url_user_id, inp.dep)]
    /\ UNCHANGED <<users_db, tasks, now, advances, uuid_seq, task_seq, req, loop, tokens, toggles>>

NextVerify ==
    \/ Authenticate
    \/ CheckAccess
    \/ \E d \in ClockSteps : Advance(d)

SpecVerify == InitVerify /\ [][NextVerify]_vars

\* =============================================================== claims
\* Case-insensitive equality and lower-case form, stated without lower().
Upper == {"A", "B", "X"}
CasePairs == {{"A", "a"}, {"B", "b"}, {"X", "x"}}
Normalized(e) == \A i \in 1..Len(e) : e[i] \notin Upper
CaseEq(e1, e2) ==
    /\ Len(e1) = Len(e2)
    /\ \A i \in 1..Len(e1) : e1[i] = e2[i] \/ {e1[i], e2[i]} \in CasePairs

Signups(status) ==
    {c \in Clients : req[c].kind = "signup" /\ req[c].pc = "done"
                     /\ req[c].resp.status = status}
Signins == {c \in Clients : req[c].kind = "signin" /\ req[c].pc = "done"}
TaskDone == {c \in Clients : req[c].kind = "task" /\ req[c].pc = "done"}
TaskRunning == {c \in Clients : req[c].kind \in TaskKinds}

\* C1: users_db holds one record per lower-case email (every key is lower-case
\* and is its record's email, ids are distinct); a signup that was answered 200
\* has its record (id, name, password) in the store under the lower-cased email,
\* so of two signups with case-equal emails only one was answered 200; a signup
\* answered 400 carries DUPLICATE_EMAIL and found a record for its email.
C1_OneRecordPerEmail ==
    /\ \A k \in DOMAIN users_db :
         /\ Normalized(k)
         /\ users_db[k].email = k
         /\ \A k2 \in DOMAIN users_db : users_db[k2].id = users_db[k].id => k2 = k
    /\ \A c \in Signups(HTTP_200_OK) :
         \E k \in DOMAIN users_db :
           /\ CaseEq(k, req[c].email)
           /\ users_db[k].id = req[c].resp.body.user_id
           /\ users_db[k].name = req[c].name
           /\ verify_password(req[c].password, users_db[k].hashed_password)
    /\ \A c \in Signups(HTTP_400_BAD_REQUEST) :
         /\ req[c].resp.detail.code = "DUPLICATE_EMAIL"
         /\ \E k \in DOMAIN users_db : CaseEq(k, req[c].email)
    /\ \A c \in Clients : req[c].kind = "signup" /\ req[c].pc = "done" =>
         req[c].resp.status \in {HTTP_200_OK, HTTP_400_BAD_REQUEST}

\* C1 witness: A@x was registered, a@x was then rejected, and the record is the first one.
C1_Witness ==
    \E c1 \in Signups(HTTP_200_OK), c2 \in Signups(HTTP_400_BAD_REQUEST) :
      /\ req[c1].email # req[c2].email
      /\ CaseEq(req[c1].email, req[c2].email)
      /\ \E k \in DOMAIN users_db : users_db[k].id = req[c1].resp.body.user_id

\* C2: a signup that passed its existence check still finds no record for its
\* email when it inserts; two signups for case-equal emails are never both
\* between check and insert, and are never both answered 200.
C2_NoDoubleSignup ==
    /\ \A c \in Clients :
         (req[c].kind = "signup" /\ req[c].pc = "signup_store") =>
           ~\E k \in DOMAIN users_db : CaseEq(k, req[c].email)
    /\ \A c1 \in Clients : \A c2 \in Clients \ {c1} :
         (req[c1].kind = "signup" /\ req[c2].kind = "signup"
            /\ CaseEq(req[c1].email, req[c2].email)) =>
           /\ ~(req[c1].pc = "signup_store" /\ req[c2].pc = "signup_store")
           /\ ~(req[c1].resp.status = HTTP_200_OK /\ req[c2].resp.status = HTTP_200_OK)

\* C2 witness: both clients sent the same signup; one was answered 200, the other 400.
C2_Witness ==
    \E c1 \in Signups(HTTP_200_OK), c2 \in Signups(HTTP_400_BAD_REQUEST) :
      /\ req[c1].email = req[c2].email
      /\ req[c2].resp = DuplicateEmail

\* get_user_from_token accepts token at clock t as user_id / email
Accepts(token, t, user_id, email) ==
    LET v == get_user_from_token(token, t)
    IN  v.kind = "user" /\ UuidText(v.id) = user_id /\ v.email = email
Refuses(token, t) == get_user_from_token(token, t).kind = "none"

\* C3 as stated: a token issued at clock t is accepted as {u, e} at every time
\* in [t, t + 7 days) and refused at every time from t + 7 days on.
C3_SevenDaysExactly ==
    \A x \in tokens :
      /\ (x.at <= now /\ now < x.at + LifetimeTicks) =>
           Accepts(x.token, now, x.user_id, x.email)
      /\ now >= x.at + LifetimeTicks => Refuses(x.token, now)

\* the issue time cut to its whole second
WholeSecond(t) == t - (t % TicksPerSecond)

\* C3 amended: a token issued at clock t is accepted as {u, e} at every time in
\* [t, s + 7 days) and refused at every time from s + 7 days on, where s is t
\* cut to its whole second.
C3_SevenDaysFromWholeSecond ==
    \A x \in tokens :
      /\ x.at <= now
      /\ now < WholeSecond(x.at) + LifetimeTicks => Accepts(x.token, now, x.user_id, x.email)
      /\ now >= WholeSecond(x.at) + LifetimeTicks => Refuses(x.token, now)

\* C3 witness: a token issued within a second is refused less than 7 days later.
C3_Witness ==
    \E x \in tokens :
      /\ x.at % TicksPerSecond # 0
      /\ now < x.at + LifetimeTicks
      /\ Refuses(x.token, now)
      /\ Accepts(x.token, x.at, x.user_id, x.email)

\* C7: a signin refused for an unknown email and a signin refused for a wrong
\* password carry the same response (401, INVALID_CREDENTIALS, same message,
\* no other field), and the response holds no token.
SigninRefused == {c \in Signins : req[c].why \in {"unknown_email", "wrong_password"}}
C7_SameInvalidCredentials ==
    /\ \A c \in SigninRefused :
         /\ req[c].resp.status = HTTP_401_UNAUTHORIZED
         /\ req[c].resp.detail.code = "INVALID_CREDENTIALS"
         /\ DOMAIN req[c].resp = {"status", "detail"}
         /\ \A c2 \in SigninRefused : req[c2].resp = req[c].resp
         /\ \A x \in tokens : x.holder = c =>
              \E k \in DOMAIN users_db : users_db[k].id = x.user_id
    /\ \A c \in Signins :
         /\ req[c].why = "wrong_password" =>
              \E k \in DOMAIN users_db :
                /\ CaseEq(k, req[c].email)
                /\ ~verify_password(req[c].password, users_db[k].hashed_password)
         /\ (~\E k \in DOMAIN users_db : CaseEq(k, req[c].email)) =>
              req[c].why = "unknown_email"

\* C7 witness: one client was refused for a wrong password, the other for an
\* unknown email.
C7_Witness ==
    \E c1 \in Signins, c2 \in Signins :
      /\ req[c1].why = "wrong_password"
      /\ req[c2].why = "unknown_email"
      /\ req[c1].resp = req[c2].resp

\* C9: once a signup was answered 200 with user_id, a signin that follows it
\* with the same password and a case-equal email is answered 200 with the
\* summary {id: user_id, email: the lower-case email, name}; its token,
\* verified when it is returned, gives an identity with id user_id, which
\* verify_user_access allows on user_id and denies on every other id.
SigninAnswered(c) ==
    /\ req[c] # req'[c]
    /\ req'[c].kind = "signin"
    /\ req'[c].pc = "done"
RoundTrip(c1, c2) ==
    (/\ c1 \in Signups(HTTP_200_OK)
     /\ SigninAnswered(c2)
     /\ CaseEq(req[c1].email, req'[c2].email)
     /\ req[c1].password = req'[c2].password) =>
       /\ req'[c2].resp.status = HTTP_200_OK
       /\ LET body == req'[c2].resp.body
              id == body.user.id
              v == get_user_from_token(body.access_token, now')
          IN  /\ UuidText(id) = req[c1].resp.body.user_id
              /\ Normalized(body.user.email)
              /\ CaseEq(body.user.email, req[c1].email)
              /\ body.user.name = req[c1].name
              /\ body.token_type = "bearer"
              /\ \E x \in tokens' :
                   x.token = body.access_token /\ x.holder = c2 /\ x.at = now'
              /\ v.kind = "user"
              /\ v.id = id
              /\ verify_user_access(id, v).allowed
              /\ \A o \in UserIds \ {id} : ~verify_user_access(o, v).allowed
C9_RoundTrip == [][\A c1 \in Clients : \A c2 \in Clients : RoundTrip(c1, c2)]_vars

\* C9 witness: A@x signed up, a@x signed in.
C9_Witness ==
    \E c1 \in Signups(HTTP_200_OK), c2 \in Signins :
      /\ CaseEq(req[c1].email, req[c2].email)
      /\ req[c1].email # req[c2].email
      /\ req[c1].password = req[c2].password
      /\ req[c2].resp.status = HTTP_200_OK

\* C10: whether a held token is accepted depends on its exp claim and the clock
\* alone: before exp the dependency gives the token's identity, from exp on it
\* answers INVALID_TOKEN, whatever users_db holds, also when the user's record
\* is gone.
C10_StatelessValidity ==
    \A x \in tokens :
      LET v == get_current_user(x.token, now)
      IN  IF now < x.token.payload.exp * TicksPerSecond
          THEN v.kind = "user" /\ UuidText(v.id) = x.user_id
          ELSE v.kind = "response" /\ v.resp = InvalidToken

\* C10 witness: the store is empty and a held token is still accepted.
C10_Witness ==
    /\ users_db = <<>>
    /\ \E x \in tokens : get_current_user(x.token, now).kind = "user"

\* the pipeline ran get_user_from_token on a token string
Verified == inp.stage \in {"authenticated", "checked"} /\ "absent" \notin DOMAIN inp.credentials

\* C4 as stated: get_user_from_token gives a user or None for every token
\* string and never raises; it gives None for a non-token string, a token that
\* was not signed by the server over this payload and algorithm, an expired
\* token, and a signed token whose sub is missing or not a UUID.
C4_FailsClosed ==
    Verified =>
      /\ inp.user.kind \in {"user", "none"}
      /\ (inp.credentials \notin Issued \/ inp.at >= LifetimeTicks) => inp.user.kind = "none"

\* C8: verify_user_access allows exactly when the path's user id is the
\* identity's id, and answers the 404 otherwise.
C8_AllowsIffSameId ==
    inp.stage = "checked" =>
      /\ inp.access.allowed <=> (inp.url_user_id = inp.dep.id)
      /\ inp.url_user_id # inp.dep.id => ~inp.access.allowed
      /\ ~inp.access.allowed => inp.access.resp.status = HTTP_404_NOT_FOUND

\* C8 witness: an identity was checked against another user's id and denied.
C8_Witness ==
    /\ inp.stage = "checked"
    /\ inp.url_user_id # inp.dep.id
    /\ ~inp.access.allowed

\* C5: a task request that reached the service presented a token signin
\* issued, was called on the path of that token's user, and its service calls
\* touched rows of that user only; a request refused for its token or by
\* verify_user_access made no service call; every row belongs to a signed-in user.
TokenUsers(token) == {UUID(x.user_id).id : x \in {y \in tokens : y.token = token}}
C5_ServiceBehindBothChecks ==
    /\ \A c \in TaskRunning :
         LET r == req[c]
         IN  /\ TokenUsers(r.credentials) = {r.current_user}
             /\ r.user_id = r.current_user
             /\ r.svc \subseteq {r.current_user}
             /\ r.task # NoTask => r.task.user_id = r.current_user
    /\ \A c \in TaskDone :
         LET r == req[c]
         IN  /\ r.svc \subseteq {r.current_user}
             /\ r.why \in {"no_token", "bad_token", "denied"} => r.svc = {}
             /\ r.resp.status \in {HTTP_200_OK, HTTP_201_CREATED, HTTP_204_NO_CONTENT} =>
                  r.svc = {r.current_user}
    /\ \A i \in DOMAIN tasks : \E x \in tokens : UuidText(tasks[i].user_id) = x.user_id

\* C5 witness: one signed-in user was denied on the other user's path while
\* the other user's task is stored and its owner's request is at work on it.
C5_Witness ==
    \E c1 \in TaskDone, c2 \in TaskRunning :
      /\ req[c1].why = "denied"
      /\ req[c2].task # NoTask
      /\ req[c2].task.id \in DOMAIN tasks
      /\ \E x \in tokens : x.holder = c1 /\ x.user_id # UuidText(req[c2].current_user)

TaskDenied == {c \in TaskDone : req[c].why = "denied"}
TaskMissing == {c \in TaskDone : req[c].why = "missing"}

\* C6 as stated: the response to a request on another user's path and the
\* response to a request for a task that does not exist are the same, status
\* and detail, and no response is a forbidden.
C6_SameResponse ==
    /\ \A c1 \in TaskDenied : \A c2 \in TaskMissing : req[c1].resp = req[c2].resp
    /\ \A c \in TaskDone : req[c].resp.status # 403

\* C6 amended: the response to a request on another user's path and the
\* response to a request for a task that does not exist have the same status,
\* 404, and the same code, NOT_FOUND, and no response is a forbidden.
C6_SameStatusAndCode ==
    /\ \A c \in TaskDenied \cup TaskMissing :
         /\ req[c].resp.status = HTTP_404_NOT_FOUND
         /\ req[c].resp.detail.code = "NOT_FOUND"
         /\ DOMAIN req[c].resp = {"status", "detail"}
         /\ DOMAIN req[c].resp.detail = {"code", "message"}
    /\ \A c \in TaskDone : req[c].resp.status # 403

\* C6 witness: one request was denied on another user's path and one asked
\* for a task that does not exist.
C6_Witness ==
    \E c1 \in TaskDenied, c2 \in TaskMissing :
      /\ req[c1].resp.status = req[c2].resp.status
      /\ req[c1].resp.detail.code = req[c2].resp.detail.code

\* the credentials are no token the server issued, or the token has expired
NoValidToken ==
    \/ "absent" \in DOMAIN inp.credentials
    \/ inp.credentials \notin Issued
    \/ inp.at >= LifetimeTicks

\* the statuses signup and signin answer with: 200, 400 for a duplicate
\* email, 401 for invalid credentials
AuthStatuses ==
    /\ \A c \in Clients : (req[c].kind = "signup" /\ req[c].pc = "done") =>
         /\ req[c].resp.status \in {HTTP_200_OK, HTTP_400_BAD_REQUEST}
         /\ req[c].resp.status = HTTP_400_BAD_REQUEST <=> req[c].resp = DuplicateEmail
    /\ \A c \in Signins :
         /\ req[c].resp.status \in {HTTP_200_OK, HTTP_401_UNAUTHORIZED}
         /\ req[c].resp.status = HTTP_401_UNAUTHORIZED <=>
              req[c].why \in {"unknown_email", "wrong_password"}

\* C11 as stated: a duplicate signup is answered 400 and invalid credentials
\* 401; on a protected endpoint a missing, invalid or expired token is
\* answered 401, whatever user id is in the path, and the ownership check runs
\* only after the token was accepted, answering 404 on a denial.
C11_StatusOrder ==
    /\ AuthStatuses
    /\ inp.stage \in {"authenticated", "checked"} =>
         /\ NoValidToken =>
              inp.dep.kind = "response" /\ inp.dep.resp.status = HTTP_401_UNAUTHORIZED
         /\ ~NoValidToken => inp.dep.kind = "user"
    /\ inp.stage = "checked" =>
         /\ ~NoValidToken
         /\ ~inp.access.allowed => inp.access.resp.status = HTTP_404_NOT_FOUND

\* the handler of c has reached its password step: hash_password in signup,
\* verify_password in signin
Hashing(c) == req[c].pc \in {"signup_store", "signin_verify"}

\* a signin arriving on c's connection can be served now
CanSignin(c) == ENABLED (\E email \in RawEmails, password \in Passwords :
                           SigninLookup(c, email, password))

\* C12 as stated: while one client's signup or signin is at its password
\* step, a request on another client's connection can still be served.
C12_HashDoesNotBlock ==
    \A c1 \in Clients : \A c2 \in Clients \ {c1} :
      (Hashing(c1) /\ Free(c2) /\ Cardinality(tokens) < MaxTokens) => CanSignin(c2)

\* no request is in progress
Quiet == \A c \in Clients : Free(c)

\* C13 as stated: once n toggle requests on a task were answered 200, whether
\* or not they overlapped, the task's is_completed differs from its first value
\* exactly when n is odd; a task no request toggled keeps its value.
C13_ToggleParity ==
    Quiet =>
      \A i \in DOMAIN toggles :
        /\ i \in DOMAIN tasks
        /\ (tasks[i].is_completed # toggles[i].was) <=> (toggles[i].n % 2 = 1)

====
